---- MODULE Spec2Model ----
(***************************************************************************)
(* Traffic analyzer (src/backend/analytics.py) and chat service            *)
(* (src/backend/chat_service.py) as a state machine.                       *)
(*                                                                         *)
(* Time is the wall clock in seconds; it advances in steps of TickSeconds.  *)
(* Weights are in tenths (2, 5, 10 for 0.2, 0.5, 1.0).  The lat/lng and    *)
(* camera_name payload of an event and of a location is copied from the    *)
(* configuration and never read by any computation; it is left out of the  *)
(* records.                                                                *)
(***************************************************************************)
EXTENDS Integers, Sequences, FiniteSets, TLC

\* ------------------------------------------------------------------ bounds
\* The clock advances MaxTicks times, TickSeconds seconds each time.
MaxTicks == 2
TickSeconds == 3
\* The tracker hands out the track ids 1..MaxTrackId.
MaxTrackId == 4
\* Number of concurrent request threads calling get_latest_data.
NumReaders == 2

\* ------------------------------------------------------- program constants
\* Buffer caps.  The code prunes at 2000 (real) and at 1000 (mock); the
\* model scales both down so that a run can fill the buffer.
RealCap == 2
MockCap == 2
frame_interval == 3
recent_window == 5
DummyMin == 5
DummyMax == 50
DummyLanes == 2
DefaultLanes == 2

vehicle_types == <<"car", "bike", "bus", "truck">>

Readers == 1..NumReaders
TrackIds == 1..MaxTrackId

\* ------------------------------------------------------------- utilities
Range(s) == {s[i] : i \in DOMAIN s}

Max(S) == CHOOSE x \in S : \A y \in S : y <= x

RECURSIVE SumOver(_, _)
\* sum(f(d) for d in s) over a sequence s of events; f picks the count or 0
SumOver(s, v) ==
    IF s = <<>> THEN 0
    ELSE (IF v = "*" \/ Head(s).vehicle_type = v THEN Head(s).count ELSE 0)
         + SumOver(Tail(s), v)

RECURSIVE SortedSeq(_)
\* the elements of a finite set of integers in increasing order
SortedSeq(S) ==
    IF S = {} THEN <<>>
    ELSE LET m == CHOOSE x \in S : \A y \in S : x <= y
         IN <<m>> \o SortedSeq(S \ {m})

\* ------------------------------------------------ timestamps (isoformat)
\* datetime.isoformat() writes the instant as text and fromisoformat() reads
\* it back; the text is modelled as the pair <<minutes, seconds>>.
isoformat(t) == <<t \div 60, t % 60>>

fromisoformat(ts) == ts[1] * 60 + ts[2]

\* ----------------------------------------------------------- configuration
CAM_002 ==
    [id |-> "CAM_002", name |-> "Seaport-Airport Rd",
     source_type |-> "live_cctv", lanes |-> 8]

\* A camera record without the optional "lanes" key.
CAM_001 ==
    [id |-> "CAM_001", name |-> "Bypass Rd", source_type |-> "live_cctv"]

\* f"DUMMY_{i}" and f"Sensor Node #{i+1}" are the pairs below.
DummyNode(i) ==
    [id |-> <<"DUMMY_", i>>, name |-> <<"Sensor Node #", i + 1>>,
     source_type |-> "simulated_cctv"]

\* <<camera_config, number of road points>>.  The first is the configuration
\* the constructor builds (one camera; at least one road point, fetched or
\* fallback).  get_latest_data and the producer read both lists through
\* self and are written for any list; the other two are lists it is also
\* written for: a camera without CAM_002 and without "lanes", and no
\* location at all.
Configurations ==
    { <<(<<CAM_002>>), 1>>, <<(<<CAM_001>>), 0>>, <<(<<>>), 0>> }

\* ----------------------------------------------------- detector (external)
\* model.names[cls_id].lower() of the object the tracker numbers i.
ObjectLabel == <<"car", "motorcycle", "bus", "person", "car", "truck">>

Label(i) == ObjectLabel[((i - 1) % Len(ObjectLabel)) + 1]

\* results[0].boxes of one pass: the visible objects, zip(track_ids, clss).
\* boxes.id is None is the empty sequence.
Scene(S) ==
    LET ids == SortedSeq(S)
    IN [i \in DOMAIN ids |-> [track_id |-> ids[i], label |-> Label(ids[i])]]

Scenes == {Scene(S) : S \in SUBSET TrackIds}

\* --------------------------------------------------- aggregation engine
\* d.get('track_ids', [])
GetTrackIds(d) == IF "track_ids" \in DOMAIN d THEN d.track_ids ELSE <<>>

\* cam.get("lanes", 2) / loc.get('lanes', 2)
GetLanes(c) == IF "lanes" \in DOMAIN c THEN c.lanes ELSE DefaultLanes

\* by_type counting the events of a type instead of summing their counts.
by_type_events(buf) ==
    [v \in Range(vehicle_types) |->
        Len(SelectSeq(buf, LAMBDA d : d.vehicle_type = v))]

by_type(buf) == [v \in Range(vehicle_types) |-> SumOver(buf, v)]

cam_data(buf, cam) == SelectSeq(buf, LAMBDA d : d.camera_id = cam.id)

\* InWindow with the event aged exactly recent_window still inside.
InWindowInclusive(d, now) ==
    (now - fromisoformat(d.timestamp)) <= recent_window

InWindow(d, now) == (now - fromisoformat(d.timestamp)) < recent_window

\* recent_data without the age test: every event of the camera.
recent_data_unwindowed(buf, cam, now) ==
    SelectSeq(buf, LAMBDA d : d.camera_id = cam.id)

recent_data(buf, cam, now) ==
    SelectSeq(buf, LAMBDA d : d.camera_id = cam.id /\ InWindow(d, now))

unique_ids_in_window(recent) ==
    UNION {Range(GetTrackIds(recent[i])) : i \in DOMAIN recent}

\* frame_counts without the grouping by timestamp: each event's count.
frame_counts_ungrouped(recent) ==
    {recent[i].count : i \in DOMAIN recent}

frame_counts(recent) ==
    LET timestamps == {recent[i].timestamp : i \in DOMAIN recent}
    IN {SumOver(SelectSeq(recent, LAMBDA d : d.timestamp = ts), "*")
            : ts \in timestamps}

\* current_load as the sum of the counts of the recent events.
current_load_summed(recent) == SumOver(recent, "*")

current_load(recent) ==
    IF recent = <<>> THEN 0
    ELSE LET n == Cardinality(unique_ids_in_window(recent))
         IN IF n = 0
            THEN (IF frame_counts(recent) # {} THEN Max(frame_counts(recent))
                  ELSE 0)
            ELSE n

CameraEntry(buf, cam, now) ==
    [name |-> cam.name,
     total |-> current_load(recent_data(buf, cam, now)),
     lanes |-> GetLanes(cam),
     breakdown |-> [v \in Range(vehicle_types) |->
                        SumOver(cam_data(buf, cam), v)]]

DummyEntry(node, count) ==
    [id |-> node.id, name |-> node.name, total |-> count,
     lanes |-> DummyLanes,
     breakdown |-> [v \in Range(vehicle_types) |->
                        IF v = "car" THEN count ELSE 0],
     source_type |-> "simulated_cctv"]

\* next((c['source_type'] for c in camera_config if c['name'] == loc['name']),
\*      'live_cctv')
SourceTypeOf(cfg, loc) ==
    LET hits == SelectSeq(cfg, LAMBDA c : c.name = loc.name)
    IN IF hits = <<>> THEN "live_cctv" ELSE Head(hits).source_type

WithField(rec, k, val) == [x \in DOMAIN rec \cup {k} |->
                               IF x = k THEN val ELSE rec[x]]

\* Classify with the thresholds exclusive.
ClassifyExclusive(loc) ==
    LET val == loc.total
        lanes == GetLanes(loc)
    IN IF val < lanes * 2
       THEN WithField(WithField(loc, "intensity", "low"),
                      "weighted_intensity", 2)
       ELSE IF val < lanes * 4
       THEN WithField(WithField(loc, "intensity", "moderate"),
                      "weighted_intensity", 5)
       ELSE WithField(WithField(loc, "intensity", "congestion"),
                      "weighted_intensity", 10)

Classify(loc) ==
    LET val == loc.total
        lanes == GetLanes(loc)
        threshold_green == lanes * 2
        threshold_yellow == lanes * 4
    IN IF val <= threshold_green
       THEN WithField(WithField(loc, "intensity", "low"),
                      "weighted_intensity", 2)
       ELSE IF val <= threshold_yellow
       THEN WithField(WithField(loc, "intensity", "moderate"),
                      "weighted_intensity", 5)
       ELSE WithField(WithField(loc, "intensity", "congestion"),
                      "weighted_intensity", 10)

\* Aggregate with the lifetime count as the headline of every aggregate.
AggregateLifetime(locals, cfg, nodes, counts) ==
    LET current_dummy_data ==
            [i \in DOMAIN nodes |-> DummyEntry(nodes[i], counts[i])]
        real_locations ==
            [i \in DOMAIN locals.by_camera |->
                WithField(locals.by_camera[i].loc, "source_type",
                          SourceTypeOf(cfg, locals.by_camera[i].loc))]
        all_locations == real_locations \o current_dummy_data
        live_cam_data ==
            SelectSeq(locals.by_camera, LAMBDA e : e.id = "CAM_002")
        dashboard_total ==
            IF live_cam_data # <<>> THEN Head(live_cam_data).loc.total ELSE 0
    IN IF all_locations = <<>>
       THEN [total_vehicles |-> locals.total_vehicles,
             distribution |-> locals.by_type,
             locations |-> <<>>]
       ELSE [total_vehicles |-> locals.total_vehicles,
             distribution |-> locals.by_type,
             locations |-> [i \in DOMAIN all_locations |->
                                Classify(all_locations[i])]]

\* Aggregate without the early return, the headline falling back to the
\* first location: with no location at all the lookup raises.
AggregateUnguarded(locals, cfg, nodes, counts) ==
    LET current_dummy_data ==
            [i \in DOMAIN nodes |-> DummyEntry(nodes[i], counts[i])]
        real_locations ==
            [i \in DOMAIN locals.by_camera |->
                WithField(locals.by_camera[i].loc, "source_type",
                          SourceTypeOf(cfg, locals.by_camera[i].loc))]
        all_locations == real_locations \o current_dummy_data
        live_cam_data ==
            SelectSeq(locals.by_camera, LAMBDA e : e.id = "CAM_002")
        dashboard_total ==
            IF live_cam_data # <<>> THEN Head(live_cam_data).loc.total
            ELSE all_locations[1].total
    IN IF all_locations = <<>>
       THEN [error |-> "IndexError"]
       ELSE [total_vehicles |-> dashboard_total,
             distribution |-> locals.by_type,
             locations |-> [i \in DOMAIN all_locations |->
                                Classify(all_locations[i])]]

\* get_latest_data after the per-camera loop: simulated nodes with the
\* drawn counts, source types, the early return, classification and the
\* dashboard total, from the locals total_vehicles, by_type, by_camera.
Aggregate(locals, cfg, nodes, counts) ==
    LET current_dummy_data ==
            [i \in DOMAIN nodes |-> DummyEntry(nodes[i], counts[i])]
        real_locations ==
            [i \in DOMAIN locals.by_camera |->
                WithField(locals.by_camera[i].loc, "source_type",
                          SourceTypeOf(cfg, locals.by_camera[i].loc))]
        all_locations == real_locations \o current_dummy_data
        live_cam_data ==
            SelectSeq(locals.by_camera, LAMBDA e : e.id = "CAM_002")
        dashboard_total ==
            IF live_cam_data # <<>> THEN Head(live_cam_data).loc.total ELSE 0
    IN IF all_locations = <<>>
       THEN [total_vehicles |-> locals.total_vehicles,
             distribution |-> locals.by_type,
             locations |-> <<>>]
       ELSE [total_vehicles |-> dashboard_total,
             distribution |-> locals.by_type,
             locations |-> [i \in DOMAIN all_locations |->
                                Classify(all_locations[i])]]

\* ------------------------------------------------------------------ state
VARIABLES
    mode,            \* self.mode once the pipeline thread runs
    camera_config,   \* self.camera_config
    dummy_nodes,     \* self.dummy_nodes
    data,            \* self.data, the event buffer
    unique_ids,      \* self.unique_ids
    current_frames,  \* self.current_frames: camera id -> latest frame
    lock,            \* self.lock: who holds it
    clock,           \* datetime.now()
    ppc,             \* where the producer thread is
    p,               \* the producer's locals
    rpc,             \* where each request thread is
    q,               \* the locals of the get_latest_data call in progress
    seen,            \* len(self.unique_ids) as read by the latest query
    chat,            \* a ChatService object and its get_response call
    http,            \* the request a route of main.py is serving
    stream,          \* the generate_frames generators being served
    boot             \* where TrafficAnalyzer.__init__ is, and its locals

vars == <<mode, camera_config, dummy_nodes, data, unique_ids, current_frames,
          lock, clock, ppc, p, rpc, q, seen, chat, http, boot, stream>>

\* The analyzer's variables.
analyzer == <<mode, camera_config, dummy_nodes, data, unique_ids,
              current_frames, lock, clock, ppc, p, rpc, q, seen, boot,
              stream>>

config == <<mode, camera_config, dummy_nodes, boot>>

\* The analyzer's variables but the generators of the video feed.
analyzer_but_stream == <<mode, camera_config, dummy_nodes, data, unique_ids,
                         current_frames, lock, clock, ppc, p, rpc, q, seen,
                         boot>>

\* The values of the lock: free, held by the producer thread, held by the
\* request thread r.
Free == <<>>

Producer == <<"producer">>

Reader(r) == <<"reader", r>>

NoQuery == [stage |-> "none"]

ZeroCounts == [v \in Range(vehicle_types) |-> 0]

NoIds == [v \in Range(vehicle_types) |-> <<>>]

\* The constructor has returned and the pipeline thread is started.
Started == [pc |-> "started"]

\* No request is being served.
NoRequest == [stage |-> "idle"]

\* No ChatService object yet.
NoChat == [pc |-> "new"]

\* Number of clients of the video feed served at once.
NumStreams == 1

Streams == 1..NumStreams

\* The generator of a feed nobody has opened, or that its client has left.
Closed == [pc |-> "closed"]

NoStreams == [s \in Streams |-> Closed]

\* The producer's locals between two frames.
IdleLocals(caps, k, frame_count, cached) ==
    [caps |-> caps, k |-> k, frame_count |-> frame_count, cached |-> cached,
     current_counts |-> ZeroCounts,
     current_ids |-> NoIds, v |-> 0, timestamp |-> <<>>]

Init ==
    /\ mode \in {"real", "mock"}
    /\ \E c \in Configurations :
          /\ camera_config = c[1]
          /\ dummy_nodes = [i \in 1..c[2] |-> DummyNode(i - 1)]
    /\ data = <<>>
    /\ unique_ids = {}
    /\ current_frames = [c \in {} |-> "raw"]
    /\ lock = Free
    /\ clock = 0
    /\ ppc = "start"
    /\ p = IdleLocals(<<>>, 0, 0, {})
    /\ rpc = [r \in Readers |-> "idle"]
    /\ q = NoQuery
    /\ seen = 0
    /\ chat = NoChat
    /\ http = NoRequest
    /\ stream = NoStreams
    /\ boot = Started

\* ------------------------------------------------------------------ clock
\* The clock is read where a lock section starts (the producer's timestamp)
\* and by get_latest_data, which reads nothing else after it that a tick
\* could change: a tick inside a lock section is a tick right after it.
Tick ==
    /\ lock = Free
    /\ clock < MaxTicks * TickSeconds
    /\ clock' = clock + TickSeconds
    /\ UNCHANGED <<chat, http, stream, config, data, unique_ids, current_frames, lock, ppc, p,
                   rpc, q, seen>>

\* --------------------------------------------------- producer: start
\* _run_pipeline, real branch, and the opening of the video sources in
\* _process_cameras: a camera whose source is missing or does not open is
\* left out of caps.
StartReal ==
    /\ ppc = "start"
    /\ mode = "real"
    /\ \E opened \in SUBSET {camera_config[i].id : i \in DOMAIN camera_config} :
          p' = IdleLocals(SelectSeq([i \in DOMAIN camera_config |->
                                        camera_config[i].id],
                                    LAMBDA c : c \in opened),
                          0, 0, {})
    /\ ppc' = "loop_top"
    /\ UNCHANGED <<chat, http, stream, config, data, unique_ids, current_frames, lock, clock,
                   rpc, q, seen>>

\* _run_pipeline, else branch.
StartMock ==
    /\ ppc = "start"
    /\ mode # "real"
    /\ ppc' = "mock_lock"
    /\ UNCHANGED <<chat, http, stream, config, data, unique_ids, current_frames, lock, clock,
                   p, rpc, q, seen>>

\* --------------------------------------------- producer: real pipeline
\* while self.running: keys = list(caps.keys()); an empty round sleeps and
\* starts over.
LoopTop ==
    /\ ppc = "loop_top"
    /\ p' = [p EXCEPT !.k = 1]
    /\ ppc' = IF p.caps = <<>> THEN "loop_top" ELSE "read"
    /\ UNCHANGED <<chat, http, stream, config, data, unique_ids, current_frames, lock, clock,
                   rpc, q, seen>>

\* Where the for loop goes after camera k: the next camera, or the sleep and
\* the next round.
AfterCamera(k) == IF k < Len(p.caps) THEN "read" ELSE "loop_top"

\* cap.read() fails at the end of the video: rewind, continue.
ReadFrameEnd ==
    /\ ppc = "read"
    /\ p' = [p EXCEPT !.k = IF p.k < Len(p.caps) THEN p.k + 1 ELSE 1]
    /\ ppc' = AfterCamera(p.k)
    /\ UNCHANGED <<chat, http, stream, config, data, unique_ids, current_frames, lock, clock,
                   rpc, q, seen>>

\* frame_count is only ever read modulo frame_interval; the model keeps the
\* residue.
should_run_ai(frame_count) == frame_count % frame_interval = 0

\* self.current_frames with the frame of camera cam_id replaced: the cached
\* annotated frame when there is one, else the raw frame just read.
Published(frames, cam_id, cached) ==
    [c \in DOMAIN frames \cup {cam_id} |->
        IF c = cam_id
        THEN (IF cam_id \in cached THEN "annotated" ELSE "raw")
        ELSE frames[c]]

\* if len(self.data) > cap: self.data.pop(0)
Prune(buf, cap) == IF Len(buf) > cap THEN Tail(buf) ELSE buf

\* cap.read() returns a frame that is not given to the detector; it is
\* published:  with self.lock: current_frames[cam_id] = ...; prune.
ReadFrameSkip ==
    /\ ppc = "read"
    /\ ~ should_run_ai((p.frame_count + 1) % frame_interval)
    /\ lock = Free
    /\ current_frames' = Published(current_frames, p.caps[p.k], p.cached)
    /\ data' = Prune(data, RealCap)
    /\ p' = [p EXCEPT !.frame_count = (p.frame_count + 1) % frame_interval,
                      !.k = IF p.k < Len(p.caps) THEN p.k + 1 ELSE 1]
    /\ ppc' = AfterCamera(p.k)
    /\ UNCHANGED <<chat, http, stream, config, unique_ids, lock, clock, rpc, q, seen>>

\* label -> type_key, or "" for a label that is no vehicle
type_key(label) ==
    IF label \in {"car", "motorcycle", "bus", "truck"}
    THEN (IF label # "motorcycle" THEN label ELSE "bike")
    ELSE ""

\* The objects of results whose label maps to v_type, in order.
OfType(results, v_type) ==
    SelectSeq(results, LAMBDA o : type_key(o.label) = v_type)

\* current_counts and current_ids after the loop over zip(track_ids, clss)
CountsOf(results) ==
    [v \in Range(vehicle_types) |-> Len(OfType(results, v))]

IdsOf(results) ==
    [v \in Range(vehicle_types) |->
        [i \in DOMAIN OfType(results, v) |-> OfType(results, v)[i].track_id]]

\* The ids the loop adds to self.unique_ids: every tracked object's.
TrackedIds(results) == {results[i].track_id : i \in DOMAIN results}

\* self.unique_ids rebuilt from the pass instead of added to.
ReplaceIds(ids, new) == new

\* self.unique_ids after self.unique_ids.add(track_id) for each id of new
AddIds(ids, new) == ids \cup new

\* cap.read() returns a frame, model.track runs on it, the annotated frame
\* is cached and the loop over the tracked objects counts them and adds
\* their ids to self.unique_ids (no lock is held).
ReadFrameTrack ==
    /\ ppc = "read"
    /\ should_run_ai((p.frame_count + 1) % frame_interval)
    /\ \E results \in Scenes :
          /\ p' = [p EXCEPT
                     !.frame_count = (p.frame_count + 1) % frame_interval,
                     !.cached = p.cached \cup {p.caps[p.k]},
                     !.current_counts = CountsOf(results),
                     !.current_ids = IdsOf(results)]
          /\ unique_ids' = AddIds(unique_ids, TrackedIds(results))
    /\ ppc' = "store"
    /\ UNCHANGED <<chat, http, stream, config, data, current_frames, lock, clock, rpc, q, seen>>

RealEvent(cam_id, v_type, count, ids, timestamp) ==
    [camera_id |-> cam_id, vehicle_type |-> v_type, count |-> count,
     track_ids |-> ids, timestamp |-> timestamp]

\* The next index after v whatever the count: the loop without its
\* count > 0 test.
NextType(counts, v) == v + 1

\* The next index after v of a vehicle type with count > 0, or one past the
\* last type.
NextPresent(counts, v) ==
    LET later == {w \in (v + 1)..Len(vehicle_types) :
                      counts[vehicle_types[w]] > 0}
    IN IF later = {} THEN Len(vehicle_types) + 1
       ELSE CHOOSE w \in later : \A x \in later : w <= x

\* StoreLock without waiting for the lock.
StoreLockUnguarded ==
    /\ ppc = "store"
    /\ lock' = Producer
    /\ p' = [p EXCEPT !.timestamp = isoformat(clock),
                      !.v = NextPresent(p.current_counts, 0)]
    /\ ppc' = "append"
    /\ UNCHANGED <<chat, http, stream, config, data, unique_ids, current_frames, clock, rpc, q,
                   seen>>

\* with self.lock: timestamp = now().isoformat(); the for loop over
\* current_counts.items() stands at the first type with count > 0.
StoreLock ==
    /\ ppc = "store"
    /\ lock = Free
    /\ lock' = Producer
    /\ p' = [p EXCEPT !.timestamp = isoformat(clock),
                      !.v = NextPresent(p.current_counts, 0)]
    /\ ppc' = "append"
    /\ UNCHANGED <<chat, http, stream, config, data, unique_ids, current_frames, clock, rpc, q,
                   seen>>

\* self.data.append for the next vehicle type with count > 0 (lock held).
StoreAppend ==
    /\ ppc = "append"
    /\ p.v <= Len(vehicle_types)
    /\ LET v_type == vehicle_types[p.v]
       IN data' = Append(data, RealEvent(p.caps[p.k], v_type,
                                         p.current_counts[v_type],
                                         p.current_ids[v_type],
                                         p.timestamp))
    /\ p' = [p EXCEPT !.v = NextPresent(p.current_counts, p.v)]
    /\ UNCHANGED <<chat, http, stream, config, unique_ids, current_frames, lock, clock, ppc, rpc,
                   q, seen>>

\* The prune that ends the append section; the lock is released.
StorePrune ==
    /\ ppc = "append"
    /\ p.v > Len(vehicle_types)
    /\ data' = Prune(data, RealCap)
    /\ lock' = Free
    /\ p' = [p EXCEPT !.current_counts = ZeroCounts, !.current_ids = NoIds,
                      !.v = 0, !.timestamp = <<>>]
    /\ ppc' = "publish"
    /\ UNCHANGED <<chat, http, stream, config, unique_ids, current_frames, clock, rpc, q, seen>>

\* The frame of a detection pass is published:
\* with self.lock: current_frames[cam_id] = ...; prune.
Publish ==
    /\ ppc = "publish"
    /\ lock = Free
    /\ current_frames' = Published(current_frames, p.caps[p.k], p.cached)
    /\ data' = Prune(data, RealCap)
    /\ p' = [p EXCEPT !.k = IF p.k < Len(p.caps) THEN p.k + 1 ELSE 1]
    /\ ppc' = AfterCamera(p.k)
    /\ UNCHANGED <<chat, http, stream, config, unique_ids, lock, clock, rpc, q, seen>>

\* --------------------------------------------- producer: mock stream
\* with self.lock: ... timestamp = now().isoformat()
MockLock ==
    /\ ppc = "mock_lock"
    /\ lock = Free
    /\ lock' = Producer
    /\ p' = [p EXCEPT !.timestamp = isoformat(clock), !.k = 1]
    /\ ppc' = "mock_cams"
    /\ UNCHANGED <<chat, http, stream, config, data, unique_ids, current_frames, clock, rpc, q,
                   seen>>

MockEvent(cam_id, v_type, count, timestamp) ==
    [camera_id |-> cam_id, vehicle_type |-> v_type, count |-> count,
     timestamp |-> timestamp]

\* One round of  for cam in self.camera_config  in
\* _generate_mock_data_for_other_cams: random.random() <= 0.3, no entry.
MockCamQuiet ==
    /\ ppc = "mock_cams"
    /\ p.k <= Len(camera_config)
    /\ p' = [p EXCEPT !.k = p.k + 1]
    /\ UNCHANGED <<chat, http, stream, config, data, unique_ids, current_frames, lock, clock,
                   ppc, rpc, q, seen>>

\* The round with a detection appending the entry twice.
MockCamDetectTwice ==
    /\ ppc = "mock_cams"
    /\ p.k <= Len(camera_config)
    /\ \E v_type \in Range(vehicle_types), count \in 1..3 :
          LET entry == MockEvent(camera_config[p.k].id, v_type, count,
                                 p.timestamp)
          IN data' = Append(Append(data, entry), entry)
    /\ p' = [p EXCEPT !.k = p.k + 1]
    /\ UNCHANGED <<chat, http, stream, config, unique_ids, current_frames, lock, clock, ppc,
                   rpc, q, seen>>

\* The same round with a detection: one entry of a random type and count.
MockCamDetect ==
    /\ ppc = "mock_cams"
    /\ p.k <= Len(camera_config)
    /\ \E v_type \in Range(vehicle_types), count \in 1..3 :
          data' = Append(data, MockEvent(camera_config[p.k].id, v_type,
                                         count, p.timestamp))
    /\ p' = [p EXCEPT !.k = p.k + 1]
    /\ UNCHANGED <<chat, http, stream, config, unique_ids, current_frames, lock, clock, ppc,
                   rpc, q, seen>>

\* The prune of the tick; the lock is released and the thread sleeps.
MockPrune ==
    /\ ppc = "mock_cams"
    /\ p.k > Len(camera_config)
    /\ data' = Prune(data, MockCap)
    /\ lock' = Free
    /\ p' = [p EXCEPT !.k = 0, !.timestamp = <<>>]
    /\ ppc' = "mock_lock"
    /\ UNCHANGED <<chat, http, stream, config, unique_ids, current_frames, clock, rpc, q, seen>>

\* The draws of random.randint(0, 50).
DummyDrawsFromZero == {0, DummyMin, DummyLanes * 4, DummyMax}

\* ------------------------------------------------------ get_latest_data
\* random.randint(5, 50): the counts a query may draw for a simulated node:
\* the ends of the range and the two sides of the congestion threshold.
DummyDraws == {DummyMin, DummyLanes * 4, DummyLanes * 4 + 1, DummyMax}

\* by_camera after the loop  for cam in self.camera_config  with now the
\* clock it reads.
ByCamera(buf, cfg, now) ==
    [i \in DOMAIN cfg |->
        [id |-> cfg[i].id, now |-> now, loc |-> CameraEntry(buf, cfg[i], now)]]

\* QueryBegin holding the lock only for its first reads.
QueryBeginReleases(r) ==
    /\ rpc[r] = "idle"
    /\ lock = Free
    /\ q.stage = "none"
    /\ lock' = Free
    /\ rpc' = [rpc EXCEPT ![r] = "query"]
    /\ q' = [stage |-> "aggregate",
             total_vehicles |-> Cardinality(unique_ids),
             by_type |-> by_type(data)]
    /\ seen' = Cardinality(unique_ids)
    /\ UNCHANGED <<chat, http, stream, config, data, unique_ids, current_frames, clock, ppc, p>>

\* with self.lock: total_vehicles = len(self.unique_ids); by_type
QueryBegin(r) ==
    /\ rpc[r] = "idle"
    /\ lock = Free
    /\ lock' = Reader(r)
    /\ rpc' = [rpc EXCEPT ![r] = "query"]
    /\ q' = [stage |-> "aggregate",
             total_vehicles |-> Cardinality(unique_ids),
             by_type |-> by_type(data)]
    /\ seen' = Cardinality(unique_ids)
    /\ UNCHANGED <<chat, http, stream, config, data, unique_ids, current_frames, clock, ppc, p>>

\* QueryBody with  heading = node  in place of  heading = node.copy(): the
\* update and the classification write into the node of self.dummy_nodes.
QueryBodyInPlace(r) ==
    /\ rpc[r] = "query"
    /\ q.stage = "aggregate"
    /\ \E counts \in [DOMAIN dummy_nodes -> DummyDraws] :
          LET by_camera == ByCamera(data, camera_config, clock)
              locals == [total_vehicles |-> q.total_vehicles,
                         by_type |-> q.by_type,
                         by_camera |-> by_camera]
              ret == Aggregate(locals, camera_config, dummy_nodes, counts)
          IN /\ q' = [stage |-> "return", by_camera |-> by_camera,
                      ret |-> ret]
             /\ dummy_nodes' = SubSeq(ret.locations, Len(camera_config) + 1,
                                      Len(ret.locations))
    /\ UNCHANGED <<chat, http, stream, mode, camera_config, boot, data,
                   unique_ids, current_frames, lock, clock, ppc, p, rpc,
                   seen>>

\* The rest of the body, still inside the with block: the per-camera loop,
\* the simulated nodes with their random counts, the classification and
\* the value to return.
QueryBody(r) ==
    /\ rpc[r] = "query"
    /\ q.stage = "aggregate"
    /\ \E counts \in [DOMAIN dummy_nodes -> DummyDraws] :
          LET by_camera == ByCamera(data, camera_config, clock)
              locals == [total_vehicles |-> q.total_vehicles,
                         by_type |-> q.by_type,
                         by_camera |-> by_camera]
          IN q' = [stage |-> "return",
                   by_camera |-> by_camera,
                   ret |-> Aggregate(locals, camera_config, dummy_nodes,
                                     counts)]
    /\ UNCHANGED <<chat, http, stream, config, data, unique_ids, current_frames, lock, clock,
                   ppc, p, rpc, seen>>

\* return: the with block is left, the lock released.
QueryReturn(r) ==
    /\ rpc[r] = "query"
    /\ q.stage = "return"
    /\ lock' = Free
    /\ rpc' = [rpc EXCEPT ![r] = "idle"]
    /\ q' = NoQuery
    /\ UNCHANGED <<chat, http, stream, config, data, unique_ids, current_frames, clock, ppc, p,
                   seen>>

\* ---------------------------------------------------------- specification
Next ==
    \/ Tick
    \/ StartReal
    \/ StartMock
    \/ LoopTop
    \/ ReadFrameEnd
    \/ ReadFrameSkip
    \/ ReadFrameTrack
    \/ StoreLock
    \/ StoreAppend
    \/ StorePrune
    \/ Publish
    \/ MockLock
    \/ MockCamQuiet
    \/ MockCamDetect
    \/ MockPrune
    \/ \E r \in Readers : QueryBegin(r)
    \/ \E r \in Readers : QueryBody(r)
    \/ \E r \in Readers : QueryReturn(r)

Spec == Init /\ [][Next]_vars

\* ============================================================ chat service
Apology ==
    "I'm sorry, but I can't connect to my brain right now (Gemini API Key missing). Please check the server logs."

TryAgainLater ==
    "I encountered an error while processing your request. Please try again later."

\* os.environ.get("GEMINI_API_KEY"): unset, set to the empty string, set.
ApiKeys == {"None", "", "key"}

\* User messages.
Messages == {"status?", "How is traffic on Seaport-Airport Rd?", ""}

\* What the text-generation service answers.
Replies == {"Traffic is light.", ""}

\* ChatService.__init__: self.model is None without a key or when
\* configuring raises, else the client.
InitModel(api_key, configure_raises) ==
    IF api_key \in {"None", ""} THEN "None"
    ELSE IF configure_raises THEN "None"
    ELSE "GenerativeModel"

ChatInit ==
    /\ chat.pc = "new"
    /\ \E api_key \in ApiKeys, configure_raises \in BOOLEAN :
          chat' = [pc |-> "ready", api_key |-> api_key,
                   configure_raises |-> configure_raises,
                   model |-> InitModel(api_key, configure_raises)]
    /\ UNCHANGED <<analyzer, http>>

\* The contexts get_response may be given in the analyzer's state: the
\* aggregates get_latest_data would return now, and a value that is no
\* dict.
TrafficContexts ==
    {[kind |-> "dict",
      value |-> Aggregate([total_vehicles |-> Cardinality(unique_ids),
                           by_type |-> by_type(data),
                           by_camera |-> ByCamera(data, camera_config, clock)],
                          camera_config, dummy_nodes, counts)]
        : counts \in [DOMAIN dummy_nodes -> DummyDraws]}
    \cup {[kind |-> "None"]}

\* _construct_prompt: data.get and loc.get with their defaults; a value
\* that is no dict has no get and raises.
ConstructPrompt(ctx) ==
    IF ctx.kind # "dict" THEN [raised |-> "AttributeError"]
    ELSE LET d == ctx.value
             locations == IF "locations" \in DOMAIN d THEN d.locations
                          ELSE <<>>
         IN [raised |-> "",
             total |-> IF "total_vehicles" \in DOMAIN d
                       THEN d.total_vehicles ELSE 0,
             loc_summaries |->
                 [i \in DOMAIN locations |->
                     <<locations[i].name, locations[i].total,
                       locations[i].intensity>>]]

\* What get_response hands back when the try block raised exc: nothing is
\* caught.
Uncaught(exc) == [kind |-> "raised", value |-> exc]

\* except Exception as e: the error is logged and the fixed text returned.
Caught(exc) == [kind |-> "returned", value |-> TryAgainLater]

\* What get_response hands back without a model: it goes on to the call.
NoModelCalls(user_query) == [kind |-> "raised", value |-> "AttributeError"]

\* if not self.model: return the apology
NoModel(user_query) == [kind |-> "returned", value |-> Apology]

\* get_response without a model.
GetResponseNoModel ==
    /\ chat.pc = "ready"
    /\ chat.model = "None"
    /\ \E user_query \in Messages, ctx \in TrafficContexts :
          chat' = [pc |-> "done", api_key |-> chat.api_key,
                   configure_raises |-> chat.configure_raises,
                   model |-> chat.model, user_query |-> user_query,
                   traffic_context |-> ctx, external_calls |-> 0,
                   e |-> "", result |-> NoModel(user_query)]
    /\ UNCHANGED <<analyzer, http>>

\* get_response with a model, up to the external call: the prompt is built;
\* if that raises, the handler returns.
GetResponsePrompt ==
    /\ chat.pc = "ready"
    /\ chat.model # "None"
    /\ \E user_query \in Messages, ctx \in TrafficContexts :
          LET system_prompt == ConstructPrompt(ctx)
              base == [api_key |-> chat.api_key,
                       configure_raises |-> chat.configure_raises,
                       model |-> chat.model, user_query |-> user_query,
                       traffic_context |-> ctx, external_calls |-> 0]
          IN chat' =
               IF system_prompt.raised # ""
               THEN base @@ [pc |-> "done", e |-> system_prompt.raised,
                             result |-> Caught(system_prompt.raised)]
               ELSE base @@ [pc |-> "calling", e |-> "",
                             full_prompt |-> <<system_prompt, user_query>>]
    /\ UNCHANGED <<analyzer, http>>

\* self.model.generate_content(full_prompt) and response.text: the call
\* answers, raises, or answers with a response whose text raises.
GetResponseGenerate ==
    /\ chat.pc = "calling"
    /\ \E outcome \in {"text", "call_raises", "text_raises"},
          text \in Replies :
          LET base == [api_key |-> chat.api_key,
                       configure_raises |-> chat.configure_raises,
                       model |-> chat.model, user_query |-> chat.user_query,
                       traffic_context |-> chat.traffic_context,
                       external_calls |-> chat.external_calls + 1,
                       pc |-> "done"]
          IN chat' =
               IF outcome = "text"
               THEN base @@ [e |-> "",
                             result |-> [kind |-> "returned", value |-> text]]
               ELSE base @@ [e |-> outcome, result |-> Caught(outcome)]
    /\ UNCHANGED <<analyzer, http>>

\* The request is over; the next request builds a new ChatService.
ChatDone ==
    /\ chat.pc = "done"
    /\ chat' = NoChat
    /\ UNCHANGED <<analyzer, http>>

NextChat ==
    \/ ChatInit
    \/ GetResponseNoModel
    \/ GetResponsePrompt
    \/ GetResponseGenerate
    \/ ChatDone

\* The chat service over the analyzer as constructed.
SpecChat == Init /\ [][NextChat]_vars

\* ================================================================ routes
\* The bodies POSTed to /api/chat: no JSON body, a JSON content type with
\* text that does not parse, a JSON array, and JSON objects without and
\* with a "message".
RequestBodies ==
    {[kind |-> "none"], [kind |-> "invalid"], [kind |-> "array"]}
    \cup {[kind |-> "object", value |-> [k \in {} |-> ""]]}
    \cup {[kind |-> "object", value |-> [message |-> m]] : m \in Messages}

\* The slot query argument of /api/history; "None" is no argument.
Slots == {"None", "morning", "evening", "lunch"}

\* The attributes of a TrafficAnalyzer that can be called.
TrafficAnalyzerMethods ==
    {"fetch_road_geometry", "_run_pipeline", "_process_cameras",
     "generate_frames", "_generate_mock_stream",
     "_generate_mock_data_for_other_cams", "get_latest_data"}

\* request.json: the parsed body; without a JSON content type it is None
\* (legacy) or raises UnsupportedMediaType, depending on the Flask
\* installed; text that does not parse raises BadRequest.
request_json(body, legacy) ==
    CASE body.kind = "none" ->
            IF legacy THEN [raised |-> "", kind |-> "None"]
            ELSE [raised |-> "UnsupportedMediaType"]
      [] body.kind = "invalid" -> [raised |-> "BadRequest"]
      [] OTHER -> [raised |-> ""] @@ body

\* data.get('message'): None and a list have no get.
get_message(body_json) ==
    IF body_json.kind # "object" THEN [raised |-> "AttributeError"]
    ELSE [raised |-> "",
          value |-> IF "message" \in DOMAIN body_json.value
                    THEN body_json.value.message ELSE "None"]

\* An exception that leaves a view function: Flask answers an HTTPException
\* with its own status and anything else with 500.
Unhandled(exc) ==
    [stage |-> "responded",
     status |-> CASE exc = "UnsupportedMediaType" -> 415
                  [] exc = "BadRequest" -> 400
                  [] OTHER -> 500,
     error |-> exc]

\* return jsonify({"response": text})
Jsonify(text) ==
    [stage |-> "responded", status |-> 200, payload |-> [response |-> text]]

\* A request arrives at /api/chat or /api/history.
Receive ==
    /\ http = NoRequest
    /\ chat = NoChat
    /\ \/ \E body \in RequestBodies :
             http' = [stage |-> "received", route |-> "chat", body |-> body]
       \/ \E slot \in Slots :
             http' = [stage |-> "received", route |-> "history",
                      slot |-> slot]
    /\ UNCHANGED <<analyzer, chat>>

\* chat(): from request.json to the empty-message return.
ChatRoute ==
    /\ http.stage = "received"
    /\ http.route = "chat"
    /\ \E legacy \in BOOLEAN :
          LET body_json == request_json(http.body, legacy)
              user_query == get_message(body_json)
          IN http' =
               IF body_json.raised # "" THEN Unhandled(body_json.raised) @@ http
               ELSE IF user_query.raised # ""
               THEN Unhandled(user_query.raised) @@ http
               ELSE IF user_query.value \in {"None", ""}
               THEN Jsonify("Please say something!") @@ http
               ELSE [stage |-> "service", route |-> "chat",
                     body |-> http.body, user_query |-> user_query.value]
    /\ UNCHANGED <<analyzer, chat>>

\* chat(): chat_service = ChatService()
ChatRouteService ==
    /\ http.stage = "service"
    /\ ChatInit

\* chat(): get_response(user_query, traffic_data) up to the external call,
\* traffic_data being the aggregate of get_latest_data.
ChatRouteGetResponse ==
    /\ http.stage = "service"
    /\ \/ GetResponseNoModel
       \/ GetResponsePrompt
    /\ chat'.user_query = http.user_query
    /\ chat'.traffic_context.kind = "dict"

\* chat(): the external call of get_response.
ChatRouteGenerate ==
    /\ http.stage = "service"
    /\ GetResponseGenerate

\* chat(): return jsonify({"response": response}), or the exception of
\* get_response leaving the view.
ChatRouteReturn ==
    /\ http.stage = "service"
    /\ chat.pc = "done"
    /\ http' = (IF chat.result.kind = "returned"
                THEN Jsonify(chat.result.value)
                ELSE Unhandled(chat.result.value)) @@ http
    /\ chat' = NoChat
    /\ UNCHANGED analyzer

\* get_history(): slot defaults to 'morning'; the analyzer's method is
\* looked up and called.
HistoryRoute ==
    /\ http.stage = "received"
    /\ http.route = "history"
    /\ LET slot == IF http.slot = "None" THEN "morning" ELSE http.slot
       IN http' =
            IF "get_historical_data" \in TrafficAnalyzerMethods
            THEN [stage |-> "responded", status |-> 200,
                  payload |-> [slot |-> slot]] @@ http
            ELSE Unhandled("AttributeError") @@ http
    /\ UNCHANGED <<analyzer, chat>>

\* The response has been sent.
Respond ==
    /\ http.stage = "responded"
    /\ http' = NoRequest
    /\ UNCHANGED <<analyzer, chat>>

NextRoutes ==
    \/ Receive
    \/ ChatRoute
    \/ ChatRouteService
    \/ ChatRouteGetResponse
    \/ ChatRouteGenerate
    \/ ChatRouteReturn
    \/ HistoryRoute
    \/ Respond

\* The chat and history routes over the analyzer as constructed.
SpecRoutes == Init /\ [][NextRoutes]_vars

\* =============================================================== startup
\* The points of the static fallback list (16 in the source).
FallbackPoints == 1

\* The most points a fetch of the road geometry returns.
MaxRoadPoints == 1

\* The mode argument of the constructor.
ModeSelectors == {"real", "mock", "auto"}

\* The road points: <<where they come from, index>>.
Points(origin, n) == [i \in 1..n |-> <<origin, i>>]

\* TrafficAnalyzer.__init__, the mode decision:
\*   real and no backend -> mock; auto -> real with a backend, else mock;
\*   else the selector itself.
DecideMode(selector, AI_AVAILABLE) ==
    IF selector = "real" /\ ~ AI_AVAILABLE THEN "mock"
    ELSE IF selector = "auto"
    THEN (IF AI_AVAILABLE THEN "real" ELSE "mock")
    ELSE selector

\* __init__: the fields and the mode decision.
Construct ==
    /\ boot.pc = "new"
    /\ \E selector \in ModeSelectors, AI_AVAILABLE \in BOOLEAN :
          /\ mode' = DecideMode(selector, AI_AVAILABLE)
          /\ boot' = [pc |-> "fetch", selector |-> selector,
                      AI_AVAILABLE |-> AI_AVAILABLE]
    /\ camera_config' = <<CAM_002>>
    /\ dummy_nodes' = <<>>
    /\ UNCHANGED <<data, unique_ids, current_frames, lock, clock, ppc, p,
                   rpc, q, seen, chat, http, stream>>

\* fetch_road_geometry: the points fetched, or [] when the request, the
\* parsing of the answer or the walk through it raises.
fetch_road_geometry(raises, n) ==
    IF raises THEN <<>> ELSE Points("osm", n)

\* road_points without the substitution.
NoFallback(road_points) == road_points

\* if not road_points: the hardcoded coordinates.
OrFallback(road_points) ==
    IF road_points = <<>> THEN Points("fallback", FallbackPoints)
    ELSE road_points

\* __init__: the fetch, the fallback and the dummy nodes.
MakeDummyNodes ==
    /\ boot.pc = "fetch"
    /\ \E raises \in BOOLEAN, n \in 0..MaxRoadPoints :
          LET fetched == fetch_road_geometry(raises, n)
              road_points == OrFallback(fetched)
          IN /\ dummy_nodes' = [i \in DOMAIN road_points |-> DummyNode(i - 1)]
             /\ boot' = [pc |-> "load", fetched |-> fetched,
                         fetch_raised |-> raises,
                         road_points |-> road_points] @@ boot
    /\ UNCHANGED <<mode, camera_config, data, unique_ids, current_frames,
                   lock, clock, ppc, p, rpc, q, seen, chat, http, stream>>

\* The mode after a failed model load, were it left alone.
KeepMode(m) == m

\* except Exception: self.mode = "mock"
Downgrade(m) == "mock"

\* __init__: self.model = YOLO(...) in real mode, which may raise.
LoadModel ==
    /\ boot.pc = "load"
    /\ \E load_raises \in BOOLEAN :
          /\ mode' = IF mode = "real" /\ load_raises THEN Downgrade(mode)
                     ELSE mode
          /\ boot' = [pc |-> "thread",
                      model |-> IF mode = "real" /\ ~ load_raises
                                THEN "YOLO" ELSE "None",
                      load_raised |-> (mode = "real" /\ load_raises)] @@ boot
    /\ UNCHANGED <<camera_config, dummy_nodes, data, unique_ids,
                   current_frames, lock, clock, ppc, p, rpc, q, seen, chat,
                   http, stream>>

\* __init__: self.thread.start(); the constructor returns and its locals
\* are gone.
StartThread ==
    /\ boot.pc = "thread"
    /\ boot' = Started
    /\ UNCHANGED <<mode, camera_config, dummy_nodes, data, unique_ids,
                   current_frames, lock, clock, ppc, p, rpc, q, seen, chat,
                   http, stream>>

\* The fields before the mode decision.
InitStartup ==
    /\ boot = [pc |-> "new"]
    /\ mode = "None"
    /\ camera_config = <<CAM_002>>
    /\ dummy_nodes = <<>>
    /\ data = <<>>
    /\ unique_ids = {}
    /\ current_frames = [c \in {} |-> "raw"]
    /\ lock = Free
    /\ clock = 0
    /\ ppc = "start"
    /\ p = IdleLocals(<<>>, 0, 0, {})
    /\ rpc = [r \in Readers |-> "idle"]
    /\ q = NoQuery
    /\ seen = 0
    /\ chat = NoChat
    /\ http = NoRequest
    /\ stream = NoStreams

\* The threads run once the constructor has started the pipeline thread
\* (traffic_system is built at import, before any request is served).
Running ==
    /\ boot = Started
    /\ Next

NextStartup ==
    \/ Construct
    \/ MakeDummyNodes
    \/ LoadModel
    \/ StartThread
    \/ Running

\* The analyzer from its construction on.
SpecStartup == InitStartup /\ [][NextStartup]_vars

\* ================================================== aggregation by inputs
\* get_latest_data applied to buffers and instants drawn second by second.
\* The last second of the instants and timestamps drawn.
MaxSeconds == 6

\* The most events of a buffer drawn.
MaxBuffered == 2

\* The events a detection pass can append at second t: one per vehicle type
\* present in the scene.
PassEvents(t) ==
    {RealEvent("CAM_002", v, CountsOf(sc)[v], IdsOf(sc)[v], isoformat(t))
        : <<sc, v>> \in {x \in Scenes \X Range(vehicle_types)
                            : CountsOf(x[1])[x[2]] > 0}}

\* The events a tick of the mock stream can append at second t.
TickEvents(t) ==
    {MockEvent("CAM_002", v, count, isoformat(t))
        : <<v, count>> \in Range(vehicle_types) \X (1..3)}

\* The buffers of at most MaxBuffered events of the mode, oldest first.
InputBuffers(m) ==
    LET events == UNION {IF m = "real" THEN PassEvents(t) ELSE TickEvents(t)
                            : t \in 0..MaxSeconds}
    IN {buf \in UNION {[1..n -> events] : n \in 0..MaxBuffered} :
            \A i \in 1..(Len(buf) - 1) :
                fromisoformat(buf[i].timestamp)
                    <= fromisoformat(buf[i + 1].timestamp)}

\* The constructor's configuration between two appends of the producer,
\* with a buffer of the mode and an instant not before its last event.
InitInputs ==
    /\ mode \in {"real", "mock"}
    /\ camera_config = <<CAM_002>>
    /\ dummy_nodes = <<DummyNode(0)>>
    /\ data \in InputBuffers(mode)
    /\ clock \in 0..MaxSeconds
    /\ \A i \in DOMAIN data : fromisoformat(data[i].timestamp) <= clock
    /\ unique_ids = UNION {Range(GetTrackIds(data[i])) : i \in DOMAIN data}
    /\ current_frames = [c \in {} |-> "raw"]
    /\ lock = Free
    /\ ppc = IF mode = "real" THEN "loop_top" ELSE "mock_lock"
    /\ p = IdleLocals(IF mode = "real" THEN <<"CAM_002">> ELSE <<>>, 0, 0, {})
    /\ rpc = [r \in Readers |-> "idle"]
    /\ q = NoQuery
    /\ seen = 0
    /\ chat = NoChat
    /\ http = NoRequest
    /\ stream = NoStreams
    /\ boot = Started

NextInputs ==
    \E r \in Readers :
        \/ QueryBegin(r)
        \/ QueryBody(r)
        \/ QueryReturn(r)

SpecInputs == InitInputs /\ [][NextInputs]_vars

\* ========================================================== visual stream
\* The camera ids a client asks /video_feed/<camera_id> for: either may be
\* the configured camera or a camera the configuration does not hold.
StreamCameraIds == {"CAM_002", "CAM_001"}

\* The value the lock has while the generator s holds it.
Streamer(s) == <<"stream", s>>

\* self.current_frames.get(camera_id): the JPEG of the camera, or None
GetFrame(frames, camera_id) ==
    IF camera_id \in DOMAIN frames THEN frames[camera_id] ELSE "None"

\* video_feed: Response(traffic_system.generate_frames(camera_id)); the
\* server starts to iterate the generator.
StreamOpen(s) ==
    /\ stream[s].pc = "closed"
    /\ \E camera_id \in StreamCameraIds :
          stream' = [stream EXCEPT ![s] = [pc |-> "poll",
                                           camera_id |-> camera_id,
                                           frame |-> "None"]]
    /\ UNCHANGED <<analyzer_but_stream, chat, http>>

\* while True: with self.lock:  (the generator waits for the lock)
StreamLock(s) ==
    /\ stream[s].pc = "poll"
    /\ lock = Free
    /\ lock' = Streamer(s)
    /\ stream' = [stream EXCEPT ![s].pc = "read"]
    /\ UNCHANGED <<chat, http, config, data, unique_ids, current_frames,
                   clock, ppc, p, rpc, q, seen>>

\* StreamRead leaving the with block without releasing the lock.
StreamReadHolds(s) ==
    /\ stream[s].pc = "read"
    /\ LET frame == GetFrame(current_frames, stream[s].camera_id)
       IN stream' = [stream EXCEPT
                        ![s].frame = frame,
                        ![s].pc = IF frame # "None" THEN "yield"
                                  ELSE "sleep"]
    /\ UNCHANGED <<chat, http, config, data, unique_ids, current_frames,
                   lock, clock, ppc, p, rpc, q, seen>>

\* frame = self.current_frames.get(camera_id); the with block ends and the
\* lock is released;  if frame:  picks the yield or the pass.
StreamRead(s) ==
    /\ stream[s].pc = "read"
    /\ LET frame == GetFrame(current_frames, stream[s].camera_id)
       IN stream' = [stream EXCEPT
                        ![s].frame = frame,
                        ![s].pc = IF frame # "None" THEN "yield"
                                  ELSE "sleep"]
    /\ lock' = Free
    /\ UNCHANGED <<chat, http, config, data, unique_ids, current_frames,
                   clock, ppc, p, rpc, q, seen>>

\* yield (b'--frame...' + frame + b'\r\n'): the chunk is handed to the
\* server and the generator resumed for the next one.  The local frame is
\* not read again before it is assigned; the model forgets it.
StreamYield(s) ==
    /\ stream[s].pc = "yield"
    /\ stream' = [stream EXCEPT ![s].pc = "sleep", ![s].frame = "None"]
    /\ UNCHANGED <<analyzer_but_stream, chat, http>>

\* The client disconnects: the server closes the generator, which is
\* suspended at its yield.
StreamClose(s) ==
    /\ stream[s].pc = "yield"
    /\ stream' = [stream EXCEPT ![s] = Closed]
    /\ UNCHANGED <<analyzer_but_stream, chat, http>>

\* time.sleep(0.05), then the next round of the loop.
StreamSleep(s) ==
    /\ stream[s].pc = "sleep"
    /\ stream' = [stream EXCEPT ![s].pc = "poll"]
    /\ UNCHANGED <<analyzer_but_stream, chat, http>>

\* The steps of the threads that share the analyzer; the clock stands
\* still, as no step of a generate_frames generator reads it.
NextStream ==
    \/ StartReal
    \/ StartMock
    \/ LoopTop
    \/ ReadFrameEnd
    \/ ReadFrameSkip
    \/ ReadFrameTrack
    \/ StoreLock
    \/ StoreAppend
    \/ StorePrune
    \/ Publish
    \/ MockLock
    \/ MockCamQuiet
    \/ MockCamDetect
    \/ MockPrune
    \/ \E r \in Readers : QueryBegin(r)
    \/ \E r \in Readers : QueryBody(r)
    \/ \E r \in Readers : QueryReturn(r)
    \/ \E s \in Streams : StreamOpen(s)
    \/ \E s \in Streams : StreamLock(s)
    \/ \E s \in Streams : StreamRead(s)
    \/ \E s \in Streams : StreamYield(s)
    \/ \E s \in Streams : StreamClose(s)
    \/ \E s \in Streams : StreamSleep(s)

\* The producer, the queries and the video feeds side by side.
SpecStream == Init /\ [][NextStream]_vars

\* ========================================================= several cameras
\* _process_cameras over a configuration of up to MaxCameras cameras.
MaxCameras == 3

\* The ids of the cameras of such a configuration, in its order.
CameraNames == <<"CAM_002", "CAM_001", "CAM_003", "CAM_004">>

Camera(i) ==
    [id |-> CameraNames[i], name |-> CameraNames[i],
     source_type |-> "live_cctv", lanes |-> 8]

\* The analyzer in real mode, with n cameras configured, before the
\* pipeline thread opens their sources.
InitCameras ==
    /\ mode = "real"
    /\ \E n \in 1..MaxCameras : camera_config = [i \in 1..n |-> Camera(i)]
    /\ dummy_nodes = <<DummyNode(0)>>
    /\ data = <<>>
    /\ unique_ids = {}
    /\ current_frames = [c \in {} |-> "raw"]
    /\ lock = Free
    /\ clock = 0
    /\ ppc = "start"
    /\ p = IdleLocals(<<>>, 0, 0, {})
    /\ rpc = [r \in Readers |-> "idle"]
    /\ q = NoQuery
    /\ seen = 0
    /\ chat = NoChat
    /\ http = NoRequest
    /\ stream = NoStreams
    /\ boot = Started

\* The steps of the pipeline thread in real mode.
NextCameras ==
    \/ StartReal
    \/ LoopTop
    \/ ReadFrameEnd
    \/ ReadFrameSkip
    \/ ReadFrameTrack
    \/ StoreLock
    \/ StoreAppend
    \/ StorePrune
    \/ Publish

\* The pipeline thread is a daemon thread whose loop  while self.running
\* never ends (nothing clears self.running), no other thread runs here to
\* hold the lock, and the scheduler keeps running it: it always takes its
\* next step.
SpecCameras == InitCameras /\ [][NextCameras]_vars /\ WF_vars(NextCameras)

\* ================================================================ claims
\* The cap of the mode in effect.
BufferCap == IF mode = "real" THEN RealCap ELSE MockCap

\* The indices of the buffered events of camera cam_id that are younger
\* than the 5-second window at the instant now.
EventsInWindow(cam_id, now) ==
    {i \in DOMAIN data :
        /\ data[i].camera_id = cam_id
        /\ now - fromisoformat(data[i].timestamp) < recent_window}

\* The distinct track ids recorded in those events.
IdsInWindow(cam_id, now) ==
    UNION {Range(GetTrackIds(data[i])) : i \in EventsInWindow(cam_id, now)}

\* The configuration the constructor builds.
Shipped == camera_config = <<CAM_002>> /\ dummy_nodes # <<>>

\* A query has computed its aggregate and not yet left the lock section:
\* the buffer is the one it read.
Computed == q.stage = "return"

\* C1 (as claimed): whenever the producer is outside its lock section, the
\* buffer of the constructor's configuration holds at most cap events.
C1_BufferWithinCap ==
    (lock # Producer /\ Shipped)
        => Len(data) <= BufferCap

\* C2: when an event of the camera inside the 5-second window carries track
\* ids, the camera's total is the number of distinct track ids in the
\* window, in by_camera and in the returned location alike; and the events
\* car=3 ids [1,2,3] at t=0 and car=2 ids [2,3,4] at t=1 give, at now=1 on
\* the 8-lane camera, total 4, intensity low, weight 0.2.
C2_LiveLoadIsDistinctIds ==
    /\ Computed =>
          \A i \in DOMAIN q.by_camera :
              LET e == q.by_camera[i]
                  ids == IdsInWindow(e.id, e.now)
              IN ids # {} =>
                    /\ e.loc.total = Cardinality(ids)
                    /\ q.ret.locations[i].total = Cardinality(ids)
    /\ LET ex == <<RealEvent("CAM_002", "car", 3, <<1, 2, 3>>, isoformat(0)),
                   RealEvent("CAM_002", "car", 2, <<2, 3, 4>>, isoformat(1))>>
           loc == Classify(CameraEntry(ex, CAM_002, 1))
       IN /\ loc.total = 4
          /\ loc.intensity = "low"
          /\ loc.weighted_intensity = 2

\* C2 witness: a computed aggregate whose window holds the same vehicle in
\* events of two timestamps, so that the counts sum to more than the ids.
C2_Witness ==
    /\ Computed
    /\ Shipped
    /\ \E i \in DOMAIN q.by_camera :
          LET e == q.by_camera[i]
              win == EventsInWindow(e.id, e.now)
          IN /\ \E a, b \in win :
                   /\ data[a].timestamp # data[b].timestamp
                   /\ Range(GetTrackIds(data[a]))
                        \cap Range(GetTrackIds(data[b])) # {}
             /\ e.loc.total = Cardinality(IdsInWindow(e.id, e.now))
             /\ e.loc.total >= 2

\* C3 (as claimed): the live load never exceeds the number of distinct track
\* ids in the window, in both modes (here in the constructor's
\* configuration).
C3_LoadAtMostDistinctIds ==
    (Computed /\ Shipped) =>
        \A i \in DOMAIN q.by_camera :
            q.by_camera[i].loc.total
                <= Cardinality(IdsInWindow(q.by_camera[i].id,
                                           q.by_camera[i].now))

\* C3 (amended): the live load never exceeds the number of distinct track
\* ids in the window when an event in the window carries ids or the window
\* is empty, which is every case of real mode; when the window holds only
\* events without ids (simulated mode) the load is at least 1 and the
\* number of ids is 0.
C3_LoadAtMostDistinctIdsWhenIds ==
    Computed =>
        \A i \in DOMAIN q.by_camera :
            LET e == q.by_camera[i]
                win == EventsInWindow(e.id, e.now)
                ids == IdsInWindow(e.id, e.now)
            IN /\ (ids # {} \/ win = {}) => e.loc.total <= Cardinality(ids)
               /\ mode = "real" => (ids # {} \/ win = {})
               /\ (ids = {} /\ win # {}) => e.loc.total >= 1

\* C3 witness: real mode, a camera with a positive load and an event older
\* than the window whose vehicle is not among the ids of the window.
C3_Witness ==
    /\ Computed
    /\ Shipped
    /\ mode = "real"
    /\ \E i \in DOMAIN q.by_camera :
          LET e == q.by_camera[i]
              ids == IdsInWindow(e.id, e.now)
          IN /\ e.loc.total >= 1
             /\ e.loc.total = Cardinality(ids)
             /\ \E j \in DOMAIN data :
                   /\ data[j].camera_id = e.id
                   /\ j \notin EventsInWindow(e.id, e.now)
                   /\ Range(GetTrackIds(data[j])) \cap ids = {}

\* The aggregate a computed query is about to return.
Ret == q.ret

\* C4: every location of every returned aggregate is low with weight 0.2
\* up to lanes*2, moderate with weight 0.5 up to lanes*4, congestion with
\* weight 1.0 above, lanes defaulting to 2; and for a location without
\* lanes the tier never goes down as the total goes up by one, and changes
\* exactly after 4 and after 8.
C4_Classification ==
    Computed =>
        /\ \A i \in DOMAIN Ret.locations :
              LET loc == Ret.locations[i]
                  lanes == IF "lanes" \in DOMAIN loc THEN loc.lanes ELSE 2
                  tier == <<loc.intensity, loc.weighted_intensity>>
              IN /\ loc.total <= lanes * 2 => tier = <<"low", 2>>
                 /\ (lanes * 2 < loc.total /\ loc.total <= lanes * 4)
                        => tier = <<"moderate", 5>>
                 /\ loc.total > lanes * 4 => tier = <<"congestion", 10>>
        /\ \A a \in 0..9 :
              LET ca == Classify([total |-> a])
                  cb == Classify([total |-> a + 1])
              IN /\ ca.weighted_intensity <= cb.weighted_intensity
                 /\ ca.intensity # cb.intensity <=> a \in {4, 8}

\* C4 witness: one aggregate with the camera low on a positive load and a
\* simulated node moderate at exactly lanes*4.
C4_Witness ==
    /\ Computed
    /\ Shipped
    /\ \E i, j \in DOMAIN Ret.locations :
          /\ Ret.locations[i].source_type = "live_cctv"
          /\ Ret.locations[i].total >= 1
          /\ Ret.locations[i].intensity = "low"
          /\ Ret.locations[j].source_type = "simulated_cctv"
          /\ Ret.locations[j].total = Ret.locations[j].lanes * 4
          /\ Ret.locations[j].intensity = "moderate"

\* C5: the headline total_vehicles of every aggregate is the total of the
\* CAM_002 location of the same aggregate, and 0 without that camera.
C5_HeadlineIsPrimaryCamera ==
    Computed =>
        LET primary == {i \in DOMAIN q.by_camera :
                            q.by_camera[i].id = "CAM_002"}
        IN IF primary # {}
           THEN \A i \in primary :
                    Ret.total_vehicles = Ret.locations[i].total
           ELSE Ret.total_vehicles = 0

RECURSIVE SumTotals(_)
SumTotals(locs) ==
    IF locs = <<>> THEN 0 ELSE Head(locs).total + SumTotals(Tail(locs))

\* C5 witness: a positive headline that is neither the sum of the location
\* totals nor the lifetime count.
C5_Witness ==
    /\ Computed
    /\ Shipped
    /\ Ret.total_vehicles >= 1
    /\ Ret.total_vehicles # SumTotals(Ret.locations)
    /\ Cardinality(unique_ids) >= 1
    /\ Ret.total_vehicles # Cardinality(unique_ids)
    /\ seen # Ret.total_vehicles

\* C6: no step removes an id from the unique-ID set, and the counter a query
\* reads is never smaller than the one the query before it read.
C6_CounterNeverDecreases ==
    [][unique_ids \subseteq unique_ids' /\ seen' >= seen]_vars

\* C6 witness: a query has read a counter of at least 2 that counts a
\* vehicle none of whose events is in the buffer any more.
C6_Witness ==
    /\ Shipped
    /\ ppc \notin {"store", "append"}
    /\ seen >= 2
    /\ seen = Cardinality(unique_ids)
    /\ \E id \in unique_ids :
          /\ type_key(Label(id)) # ""
          /\ \A i \in DOMAIN data : id \notin Range(GetTrackIds(data[i]))

\* The producer is inside an append section.
Appending == ppc \in {"append", "mock_cams"}

\* C7: a request thread inside get_latest_data holds the lock and the
\* producer inside an append section holds it, so no query runs while a
\* pass is partly appended; and the parts of one aggregate (distribution,
\* read first, and the breakdowns, read later) are those of one buffer.
C7_NoPartialAppend ==
    /\ \A r \in Readers : rpc[r] = "query" => lock = Reader(r)
    /\ Appending => lock = Producer
    /\ q.stage # "none" => ~ Appending
    /\ Computed =>
          /\ Ret.distribution = by_type(data)
          /\ \A i \in DOMAIN q.by_camera :
                q.by_camera[i].loc.breakdown =
                    [v \in Range(vehicle_types) |->
                        SumOver(SelectSeq(data, LAMBDA d :
                                    d.camera_id = q.by_camera[i].id), v)]

\* C7 witness: a query is running while the producer stands before the
\* append section with a pass of at least two events.
C7_Witness ==
    /\ Shipped
    /\ q.stage = "aggregate"
    /\ ppc = "store"
    /\ Cardinality({v \in Range(vehicle_types) : p.current_counts[v] > 0})
          >= 2

\* C8 (as claimed): a query computes its aggregate after it has released
\* the lock (here in the constructor's configuration).
C8_ComputesOutsideLock ==
    (Shipped /\ q.stage = "aggregate") => lock = Free

\* C8 (amended): a query holds the lock from its first read until it
\* returns; while it computes, the buffer does not change and a producer
\* waiting to append keeps waiting.
C8_ComputesInsideLock ==
    /\ [](q.stage # "none" => \E r \in Readers : lock = Reader(r))
    /\ [][q.stage # "none" =>
            /\ data' = data
            /\ (ppc \in {"store", "mock_lock"} => ppc' = ppc)]_vars

\* C8 witness: a query has computed its aggregate over a non-empty buffer
\* and still holds the lock while the producer waits with events to append.
C8_Witness ==
    /\ Shipped
    /\ Computed
    /\ data # <<>>
    /\ ppc = "store"
    /\ \E v \in Range(vehicle_types) : p.current_counts[v] > 0

\* No camera and no simulated node.
NoLocations == camera_config = <<>> /\ dummy_nodes = <<>>

\* C9: with no location at all a query runs to its return, and returns
\* locations = [], an all-zero distribution and a headline that is 0 or the
\* lifetime count.
C9_NoLocationsAggregate ==
    NoLocations =>
        /\ \A r \in Readers :
              (rpc[r] = "query" /\ q.stage = "aggregate")
                  => ENABLED QueryBody(r)
        /\ Computed =>
              /\ DOMAIN Ret = {"total_vehicles", "distribution", "locations"}
              /\ Ret.locations = <<>>
              /\ \A v \in Range(vehicle_types) : Ret.distribution[v] = 0
              /\ Ret.total_vehicles \in {0, Cardinality(unique_ids)}

\* C9 witness: such an aggregate, computed after the clock has advanced.
C9_Witness ==
    /\ NoLocations
    /\ Computed
    /\ clock > 0
    /\ Ret.locations = <<>>

\* The texts get_response can return.
ChatStrings == {Apology, TryAgainLater} \cup Replies

\* C10: get_response always returns a string and never raises; without a
\* credential, or when configuring failed, it returns the apology and makes
\* no external call; when building the prompt, the external call or reading
\* its text fails, it returns the try-again-later text.
C10_GetResponseTotal ==
    /\ chat.pc \in {"ready", "calling", "done"} =>
          ((chat.api_key \in {"None", ""} \/ chat.configure_raises)
               => chat.model = "None")
    /\ chat.pc = "calling" => chat.model # "None"
    /\ chat.pc = "done" =>
          /\ chat.result.kind = "returned"
          /\ chat.result.value \in ChatStrings
          /\ chat.model = "None" =>
                (chat.result.value = Apology /\ chat.external_calls = 0)
          /\ chat.e # "" => chat.result.value = TryAgainLater
          /\ chat.traffic_context.kind # "dict" =>
                (chat.model = "None" \/ chat.e # "")

\* C10 witness: the external call was made and raised, and the caller got
\* the try-again-later text.
C10_Witness ==
    /\ chat.pc = "done"
    /\ chat.e = "call_raises"
    /\ chat.external_calls = 1
    /\ chat.user_query = "status?"
    /\ chat.result = [kind |-> "returned", value |-> TryAgainLater]

\* C11 (as claimed): every request to the chat endpoint, whatever its body,
\* is answered with a {response: string} payload.
C11_ChatAlwaysPayload ==
    (Shipped /\ http.stage = "responded" /\ http.route = "chat") =>
        /\ http.status = 200
        /\ "payload" \in DOMAIN http
        /\ http.payload.response \in ChatStrings \cup {"Please say something!"}

\* C12 (as claimed): every request to the history endpoint is answered with
\* a summary of the slot asked for, "morning" by default.
C12_HistoryReturnsSummary ==
    (Shipped /\ http.stage = "responded" /\ http.route = "history") =>
        /\ http.status = 200
        /\ "payload" \in DOMAIN http
        /\ http.payload.slot = (IF http.slot = "None" THEN "morning"
                                ELSE http.slot)

\* C13: a fetch that raises yields no point; whenever no point is fetched
\* the road points are the fallback list; there is one simulated node per
\* road point; and once the constructor has returned the list of simulated
\* nodes is never empty.
C13_DummyNodesNonEmpty ==
    /\ boot.pc \in {"load", "thread"} =>
          /\ boot.fetch_raised => boot.fetched = <<>>
          /\ boot.fetched = <<>> =>
                /\ boot.road_points = Points("fallback", FallbackPoints)
                /\ Len(dummy_nodes) = FallbackPoints
          /\ boot.fetched # <<>> => boot.road_points = boot.fetched
          /\ Len(dummy_nodes) = Len(boot.road_points)
          /\ dummy_nodes # <<>>
    /\ boot = Started => dummy_nodes # <<>>

\* C13 witness: the fetch raised and the nodes stand on the fallback points.
C13_Witness ==
    /\ boot.pc = "thread"
    /\ boot.fetch_raised
    /\ boot.road_points[1][1] = "fallback"
    /\ Len(dummy_nodes) = FallbackPoints
    /\ dummy_nodes[1] = DummyNode(0)

\* The producer is in the real pipeline, in the simulated one.
InRealPipeline == ppc \in {"loop_top", "read", "store", "append", "publish"}
InMockPipeline == ppc \in {"mock_lock", "mock_cams"}

\* C14: when the thread is about to start the mode is real exactly when the
\* selector is real or auto, the backend is available and the model loaded,
\* and mock otherwise; the producer does not run before; once the thread is
\* started no step changes the mode, and the producer is in the pipeline of
\* that mode.
C14_ModeInEffect ==
    /\ [](boot.pc = "thread" =>
            /\ mode = (IF /\ boot.selector \in {"real", "auto"}
                          /\ boot.AI_AVAILABLE
                          /\ ~ boot.load_raised
                       THEN "real" ELSE "mock")
            /\ (boot.selector = "real" /\ ~ boot.AI_AVAILABLE) => mode = "mock"
            /\ boot.selector = "auto" =>
                  (boot.AI_AVAILABLE /\ ~ boot.load_raised <=> mode = "real")
            /\ mode = "real" <=> boot.model = "YOLO")
    /\ [](boot # Started => ppc = "start")
    /\ [](boot = Started =>
            /\ mode \in {"real", "mock"}
            /\ InRealPipeline => mode = "real"
            /\ InMockPipeline => mode = "mock")
    /\ [][boot = Started => mode' = mode]_vars

\* C14 witness: real was asked for with the backend available, the model
\* failed to load, and the thread is about to start in mock mode.
C14_Witness ==
    /\ boot.pc = "thread"
    /\ boot.selector = "real"
    /\ boot.AI_AVAILABLE
    /\ boot.load_raised
    /\ mode = "mock"

\* The sum of the counts of the buffered events with indices in S.
RECURSIVE CountSum(_)
CountSum(S) ==
    IF S = {} THEN 0
    ELSE LET j == CHOOSE x \in S : TRUE
         IN data[j].count + CountSum(S \ {j})

\* The largest sum of counts over the events of S sharing a timestamp.
MaxGroupSum(S) ==
    Max({CountSum({j \in S : data[j].timestamp = data[k].timestamp})
            : k \in S})

\* C15: a camera with events in the window but no track id among them has
\* as live load the largest per-timestamp sum of their counts; a camera
\* with no event in the window has live load 0; and the simulated events
\* 2 and 3 at t=0 and 4 at t=1 give, at now=1, the load 5.
C15_FallbackIsMaxGroupSum ==
    /\ Computed =>
          \A i \in DOMAIN q.by_camera :
              LET e == q.by_camera[i]
                  win == EventsInWindow(e.id, e.now)
              IN /\ win = {} => e.loc.total = 0
                 /\ (win # {} /\ IdsInWindow(e.id, e.now) = {}) =>
                        /\ e.loc.total = MaxGroupSum(win)
                        /\ Ret.locations[i].total = MaxGroupSum(win)
    /\ LET ex == <<MockEvent("CAM_002", "car", 2, isoformat(0)),
                   MockEvent("CAM_002", "bus", 3, isoformat(0)),
                   MockEvent("CAM_002", "car", 4, isoformat(1))>>
       IN CameraEntry(ex, CAM_002, 1).total = 5

\* C15 witness: simulated mode, two events of different timestamps and
\* different counts in the window; the load is the larger count, not the
\* sum.
C15_Witness ==
    /\ Computed
    /\ Shipped
    /\ mode = "mock"
    /\ \E i \in DOMAIN q.by_camera :
          LET e == q.by_camera[i]
              win == EventsInWindow(e.id, e.now)
          IN /\ \E a, b \in win :
                   /\ data[a].timestamp # data[b].timestamp
                   /\ data[a].count < data[b].count
                   /\ e.loc.total = data[b].count
             /\ e.loc.total < CountSum(win)

\* The buffered events of camera cam_id aged less than 5 seconds at now.
Young(cam_id, now) ==
    {j \in DOMAIN data :
        /\ data[j].camera_id = cam_id
        /\ now - (data[j].timestamp[1] * 60 + data[j].timestamp[2]) < 5}

\* The buffered events of camera cam_id, of type v.
OfCamera(cam_id) == {j \in DOMAIN data : data[j].camera_id = cam_id}
OfCameraType(cam_id, v) ==
    {j \in OfCamera(cam_id) : data[j].vehicle_type = v}

\* C16: only the events aged less than 5 seconds decide a camera's live
\* load; without any the load is 0 and the intensity low, while the
\* breakdown and the distribution still count every buffered event.
C16_WindowIsStrict ==
    Computed =>
        \A i \in DOMAIN q.by_camera :
            LET e == q.by_camera[i]
                young == Young(e.id, e.now)
                ids == UNION {Range(GetTrackIds(data[j])) : j \in young}
                loc == Ret.locations[i]
            IN /\ e.now = clock
               /\ loc.total = (IF young = {} THEN 0
                               ELSE IF ids # {} THEN Cardinality(ids)
                               ELSE MaxGroupSum(young))
               /\ young = {} => loc.intensity = "low"
               /\ \A v \in Range(vehicle_types) :
                     /\ loc.breakdown[v] = CountSum(OfCameraType(e.id, v))
                     /\ Ret.distribution[v] =
                            CountSum({j \in DOMAIN data :
                                         data[j].vehicle_type = v})

\* C16 witness: the youngest event of the camera is aged exactly 5 seconds;
\* the load is 0 and the intensity low, and the breakdown counts the event.
C16_Witness ==
    /\ Computed
    /\ \E i \in DOMAIN q.by_camera :
          LET e == q.by_camera[i]
              loc == Ret.locations[i]
          IN /\ OfCamera(e.id) # {}
             /\ \E j \in OfCamera(e.id) :
                   e.now - fromisoformat(data[j].timestamp) = 5
             /\ \A j \in OfCamera(e.id) :
                   e.now - fromisoformat(data[j].timestamp) >= 5
             /\ loc.total = 0
             /\ loc.intensity = "low"
             /\ \E v \in Range(vehicle_types) : loc.breakdown[v] >= 1

\* The indices of the vehicle types of the pass in progress with a count
\* above 0 that the append loop has gone past.
Appended ==
    {w \in 1..Len(vehicle_types) :
        w < p.v /\ p.current_counts[vehicle_types[w]] > 0}

\* C17: every buffered event has one of the four vehicle types and a count
\* of at least 1, equal to the number of its track ids when it has any;
\* the events a detection pass has appended so far are, at the end of the
\* buffer and in order, one per vehicle type seen with its count and ids,
\* and none for a type not seen; and for every scene the count of a type
\* is the number of ids kept for it.
C17_EventsWellFormed ==
    /\ \A i \in DOMAIN data :
          /\ data[i].vehicle_type \in {"car", "bike", "bus", "truck"}
          /\ data[i].count >= 1
          /\ GetTrackIds(data[i]) # <<>> =>
                data[i].count = Len(data[i].track_ids)
    /\ ppc = "append" =>
          LET done == SortedSeq(Appended)
              n == Len(done)
          IN /\ Len(data) >= n
             /\ \A x \in 1..n :
                   LET ev == data[Len(data) - n + x]
                       v == vehicle_types[done[x]]
                   IN /\ ev.camera_id = p.caps[p.k]
                      /\ ev.vehicle_type = v
                      /\ ev.count = p.current_counts[v]
                      /\ ev.track_ids = p.current_ids[v]
                      /\ ev.timestamp = p.timestamp
    /\ ppc = "start" =>
          \A S \in SUBSET (1..Len(ObjectLabel)) :
              \A v \in Range(vehicle_types) :
                  /\ CountsOf(Scene(S))[v] = Len(IdsOf(Scene(S))[v])
                  /\ CountsOf(Scene(S))[v] =
                        Cardinality({i \in S : type_key(Label(i)) = v})

\* C17 witness: a detection pass that saw two vehicle types and not the
\* others has appended its events.
C17_Witness ==
    /\ Shipped
    /\ ppc = "append"
    /\ p.v > Len(vehicle_types)
    /\ Cardinality(Appended) = 2
    /\ Len(data) >= 3
    /\ data[Len(data)].vehicle_type # data[Len(data) - 1].vehicle_type
    /\ data[Len(data)].timestamp = data[Len(data) - 1].timestamp

\* The sum over the configured cameras of their breakdown of type v.
RECURSIVE BreakdownSum(_, _)
BreakdownSum(n, v) ==
    IF n = 0 THEN 0
    ELSE Ret.locations[n].breakdown[v] + BreakdownSum(n - 1, v)

\* C18: in every aggregate the distribution of a type is the sum of the
\* counts of all buffered events of the type, a camera's breakdown is that
\* sum over the camera's events, whatever their age, and the distribution
\* is the sum of the cameras' breakdowns; and the sums a query would report
\* go down only in a step that evicts the oldest event.
C18_CumulativeCounts ==
    /\ [](Computed =>
            \A v \in Range(vehicle_types) :
                /\ Ret.distribution[v] =
                       CountSum({j \in DOMAIN data : data[j].vehicle_type = v})
                /\ \A i \in DOMAIN q.by_camera :
                       Ret.locations[i].breakdown[v] =
                           CountSum(OfCameraType(q.by_camera[i].id, v))
                /\ Ret.distribution[v] = BreakdownSum(Len(q.by_camera), v))
    /\ [][\A v \in Range(vehicle_types) :
             by_type(data')[v] < by_type(data)[v] =>
                 (data # <<>> /\ data' = Tail(data))]_vars

\* C18 witness: an aggregate whose camera has a buffered event older than
\* the window, so that its breakdown sums to more than its live load, and
\* an event counting more than one vehicle.
C18_Witness ==
    /\ Computed
    /\ Shipped
    /\ \E i \in DOMAIN q.by_camera :
          LET e == q.by_camera[i]
          IN /\ OfCamera(e.id) \ EventsInWindow(e.id, e.now) # {}
             /\ EventsInWindow(e.id, e.now) # {}
             /\ \E j \in OfCamera(e.id) : data[j].count >= 2
             /\ CountSum(OfCamera(e.id)) > e.loc.total

\* The location of simulated node k in the aggregate: the nodes follow the
\* cameras.
DummyLoc(k) == Ret.locations[Len(camera_config) + k]

\* C19: in every aggregate each simulated node is one location, after the
\* cameras, with a total in 5..50, 2 lanes, the total as its car count and
\* 0 for the other types, moderate up to 8 and congestion above, never low;
\* the nodes kept by the analyzer hold no total; and every total of 5..50
\* classifies so.
C19_SimulatedNodes ==
    /\ \A k \in DOMAIN dummy_nodes : "total" \notin DOMAIN dummy_nodes[k]
    /\ Computed =>
          /\ Len(Ret.locations) = Len(camera_config) + Len(dummy_nodes)
          /\ \A k \in DOMAIN dummy_nodes :
                LET loc == DummyLoc(k)
                IN /\ loc.id = dummy_nodes[k].id
                   /\ loc.source_type = "simulated_cctv"
                   /\ Cardinality({i \in DOMAIN Ret.locations :
                          /\ Ret.locations[i].source_type = "simulated_cctv"
                          /\ Ret.locations[i].name = loc.name}) = 1
                   /\ loc.total \in 5..50
                   /\ loc.lanes = 2
                   /\ loc.breakdown = [car |-> loc.total, bike |-> 0,
                                       bus |-> 0, truck |-> 0]
                   /\ loc.intensity = (IF loc.total <= 8 THEN "moderate"
                                       ELSE "congestion")
                   /\ loc.weighted_intensity = (IF loc.total <= 8 THEN 5
                                                ELSE 10)
    /\ ppc = "start" =>
          \A c \in 5..50 :
              LET loc == Classify(DummyEntry(DummyNode(0), c))
              IN /\ loc.total = c
                 /\ loc.intensity = (IF c <= 8 THEN "moderate"
                                     ELSE "congestion")

\* C19 witness: an aggregate with a simulated node at total 9, congested,
\* beside the camera at a positive load.
C19_Witness ==
    /\ Computed
    /\ Shipped
    /\ Ret.locations[1].total >= 1
    /\ DummyLoc(1).total = 9
    /\ DummyLoc(1).intensity = "congestion"
    /\ DummyLoc(1).breakdown.car = 9

\* C20: in simulated mode every buffered event has one of the four vehicle
\* types, a count in 1..3 and no track ids; the buffer changes only inside
\* the producer's lock section; inside it each step handles one camera and
\* appends nothing or one event of that camera with the tick's timestamp,
\* which does not change during the tick; and only the step that prunes
\* leaves the lock section, after the last camera.
C20_MockTick ==
    /\ [](mode = "mock" =>
            \A i \in DOMAIN data :
                /\ data[i].vehicle_type \in {"car", "bike", "bus", "truck"}
                /\ data[i].count \in 1..3
                /\ "track_ids" \notin DOMAIN data[i])
    /\ [](ppc = "mock_cams" => (mode = "mock" /\ lock = Producer))
    /\ [][(mode = "mock" /\ data' # data) => ppc = "mock_cams"]_vars
    /\ [][(ppc = "mock_cams" /\ ppc' = "mock_cams" /\ p' # p) =>
             /\ p.k <= Len(camera_config)
             /\ p'.k = p.k + 1
             /\ p'.timestamp = p.timestamp
             /\ lock' = Producer
             /\ \/ data' = data
                \/ /\ Len(data') = Len(data) + 1
                   /\ SubSeq(data', 1, Len(data)) = data
                   /\ data'[Len(data')].camera_id = camera_config[p.k].id
                   /\ data'[Len(data')].timestamp = p.timestamp]_vars
    /\ [][(ppc = "mock_cams" /\ ppc' # "mock_cams") =>
             /\ p.k = Len(camera_config) + 1
             /\ lock' = Free
             /\ data' = (IF Len(data) > MockCap THEN Tail(data) ELSE data)]_vars

\* C20 witness: simulated mode, the tick has gone through the camera and
\* appended an event with its timestamp, the buffer is above the cap and
\* the lock still held before the prune.
C20_Witness ==
    /\ Shipped
    /\ mode = "mock"
    /\ ppc = "mock_cams"
    /\ lock = Producer
    /\ p.k > Len(camera_config)
    /\ Len(data) = MockCap + 1
    /\ data[Len(data)].timestamp = p.timestamp
    /\ clock > 0

\* C21 (as claimed): the distinct-vehicle total counts only vehicles: with
\* the constructor's configuration, every id in self.unique_ids is the track
\* id of an object whose label is car, motorcycle (bike), bus or truck, the
\* labels whose ids go into the track_ids of an event; an object of any
\* other class never adds an id.
C21_OnlyVehicleIds ==
    Shipped => \A i \in unique_ids : type_key(Label(i)) # ""

\* The state the threads share.
shared == <<data, unique_ids, current_frames, camera_config, dummy_nodes>>

\* C23: a step of a get_latest_data call or of a generate_frames generator
\* leaves the event buffer, the unique-id set, the frame buffer, the camera
\* configuration and the simulated nodes as they are, whatever the other
\* threads have done before it; every step that changes one of them is a
\* step of the producer thread.
C23_ReadersWriteNothing ==
    /\ [][(rpc' # rpc \/ q' # q \/ stream' # stream) => shared' = shared]_vars
    /\ [][shared' # shared => (ppc' # ppc \/ p' # p)]_vars

\* C23 witness: with the constructor's configuration, a query has computed
\* its aggregate over a buffer with events, a generator stands at its yield
\* with an annotated frame, and the producer is in a detection pass of its
\* own with ids recorded.
C23_Witness ==
    /\ Shipped
    /\ Computed
    /\ data # <<>>
    /\ unique_ids # {}
    /\ ppc = "store"
    /\ \E s \in Streams :
          /\ stream[s].pc = "yield"
          /\ stream[s].frame = "annotated"
          /\ stream[s].camera_id \in DOMAIN current_frames

\* C24: a generate_frames generator holds the lock exactly while it stands
\* at its read, never at its yield, in its sleep or between two polls, and
\* the step that follows the acquisition can always be taken and releases
\* the lock; that step reads the frame then buffered for the camera asked
\* for: when there is none (camera unknown, skipped or not yet published)
\* the generator goes to its sleep without a yield, and from the sleep to
\* the next poll; otherwise it goes to its yield with the frame the producer
\* published last for that camera; it never yields without a frame.
C24_StreamReader ==
    /\ [](\A s \in Streams :
            /\ (lock = Streamer(s)) <=> (stream[s].pc = "read")
            /\ (stream[s].pc = "read" => ENABLED StreamRead(s))
            /\ (stream[s].pc = "yield" =>
                  stream[s].frame \in {"raw", "annotated"}))
    /\ [][\A s \in Streams :
            (stream[s].pc = "read" /\ stream'[s] # stream[s]) =>
                /\ lock' = Free
                /\ current_frames' = current_frames
                /\ IF stream[s].camera_id \in DOMAIN current_frames
                   THEN /\ stream'[s].pc = "yield"
                        /\ stream'[s].frame =
                              current_frames[stream[s].camera_id]
                   ELSE /\ stream'[s].pc = "sleep"
                        /\ stream'[s].frame = "None"]_vars
    /\ [][\A s \in Streams :
            (stream[s].pc = "sleep" /\ stream'[s] # stream[s]) =>
                stream'[s].pc = "poll"]_vars
    /\ [][\A s \in Streams :
            (stream[s].pc = "poll" /\ stream'[s] # stream[s]) =>
                (lock = Free /\ stream'[s].pc = "read")]_vars

\* C24 witness: with the constructor's configuration a generator stands at
\* its yield with the annotated frame of CAM_002 while the producer holds
\* the lock to append the events of its next pass.
C24_Witness ==
    /\ Shipped
    /\ lock = Producer
    /\ ppc = "append"
    /\ \E s \in Streams :
          /\ stream[s].pc = "yield"
          /\ stream[s].camera_id = "CAM_002"
          /\ stream[s].frame = "annotated"
          /\ current_frames["CAM_002"] = "annotated"

\* The pipeline decodes a frame of camera cam_id: cap.read() returns one and
\* frame_count is incremented.
Decodes(cam_id) ==
    /\ ppc = "read"
    /\ p.caps[p.k] = cam_id
    /\ p'.frame_count # p.frame_count

\* The pipeline has run a detection+tracking pass on a frame of cam_id.
Passed(cam_id) == ppc = "store" /\ p.caps[p.k] = cam_id

====
